---- MODULE Spec2Model ----
(***************************************************************************)
(* Model of the permissionless-voting tally guest                          *)
(* (guests/voting-tally/src/main.rs), its data types                       *)
(* (guests/vote-types/src/lib.rs), the executor harness that runs it       *)
(* (guests/tests/voting-tally.rs) and the publisher (apps/src/main.rs).    *)
(*                                                                         *)
(* Byte buffers are sequences of 32-byte ABI words.  keccak256 is modelled *)
(* as a collision-free constructor: the hash of a buffer is a record that  *)
(* holds the buffer.                                                       *)
(***************************************************************************)
EXTENDS Integers, Naturals, Sequences, FiniteSets, TLC

\* ------------------------------------------------------------------ bounds
\* Longest vote list drawn as guest input.
MaxVotes == 4
\* Width in bits of the yes/no counters (u32 in the code, scaled down).
CountBits == 2

\* Proposal identifiers and voter addresses drawn as guest input.
ProposalIds == {0, 5}
Voters == {1, 2}

\* ------------------------------------------------------------------ types
Vote == [proposalId : ProposalIds, voter : Voters, choice : BOOLEAN]

VoteSeqs == UNION {[1..n -> Vote] : n \in 0..MaxVotes}

VoteWitness == [proposalId : ProposalIds, votes : VoteSeqs]

\* Largest value of a counter, and the modulus it wraps at.
CountModulus == 2 ^ CountBits
CountMax == CountModulus - 1

\* ------------------------------------------------------------ hash, encoding
keccak256(bytes) == [keccak256 |-> bytes]

BoolWord(b) == IF b THEN 1 ELSE 0

\* (proposalId).abi_encode(): one word.
AbiEncodeId(pid) == <<pid>>

\* (voter, choice, proposalId).abi_encode(): three static words.
AbiEncodeVoteTuple(voter, choice, pid) == <<voter, BoolWord(choice), pid>>

\* (digest, vote_commitment).abi_encode(): two static words.
AbiEncodePair(d, c) == <<d, c>>

\* Vote is a static struct of three words, in field order.
AbiEncodeVote(v) == <<v.proposalId, v.voter, BoolWord(v.choice)>>

RECURSIVE AbiEncodeVotes(_)
AbiEncodeVotes(vs) ==
    IF vs = <<>> THEN <<>>
    ELSE AbiEncodeVote(Head(vs)) \o AbiEncodeVotes(Tail(vs))

\* VoteWitness is a dynamic struct: an offset to the struct, then its head
\* (proposalId, offset of votes), then the array (length, elements).
AbiEncodeWitness(w) ==
    <<32, w.proposalId, 64, Len(w.votes)>> \o AbiEncodeVotes(w.votes)

DecodeError == [ok |-> FALSE, proposalId |-> 0, votes |-> <<>>]

\* VoteWitness::abi_decode: follows the offsets and fails on a buffer that
\* ends before a word it has to read.
AbiDecodeWitness(b) ==
    IF Len(b) < 1 THEN DecodeError
    ELSE LET s == b[1] \div 32 IN
      IF Len(b) < s + 2 THEN DecodeError
      ELSE LET a == s + (b[s + 2] \div 32) IN
        IF Len(b) < a + 1 THEN DecodeError
        ELSE LET n == b[a + 1] IN
          IF Len(b) < a + 1 + 3 * n THEN DecodeError
          ELSE [ok |-> TRUE,
                proposalId |-> b[s + 1],
                votes |-> [k \in 1..n |->
                    [proposalId |-> b[a + 1 + 3 * (k - 1) + 1],
                     voter |-> b[a + 1 + 3 * (k - 1) + 2],
                     choice |-> b[a + 1 + 3 * (k - 1) + 3] # 0]]]

\* VotePublicOutput is a static struct of four words.
AbiEncodeOutput(o) == <<o.proposalId, o.commitmentsDigest, o.yes, o.no>>

\* VotePublicOutput::abi_decode of a journal of four words.
AbiDecodeOutput(j) ==
    [proposalId |-> j[1], commitmentsDigest |-> j[2], yes |-> j[3], no |-> j[4]]

\* ------------------------------------------------------------------ inputs
DropLast(b) == SubSeq(b, 1, Len(b) - 1)

WellFormedInputs == {AbiEncodeWitness(w) : w \in VoteWitness}

\* Buffers that are no encoding of a witness: the empty buffer and the
\* encodings cut short by one word.
MalformedInputs == {<<>>} \cup {DropLast(b) : b \in WellFormedInputs}

Inputs == WellFormedInputs \cup MalformedInputs

\* ------------------------------------------------------------------- state
VARIABLES
    stdin,           \* the guest's input channel: the bytes env::stdin() yields
    pc,              \* the guest's position: "start", "loop", "done", "panicked"
    panicMsg,        \* what the guest panicked on: "none", "decode", "mismatch", "overflow"
    proposalId,      \* local proposalId of the decoded witness
    votes,           \* local votes of the decoded witness
    i,               \* number of votes the for loop has consumed
    yes,             \* local counter yes
    no,              \* local counter no
    digest,          \* local running digest
    journal,         \* the words committed to the journal by this run
    overflowChecks,  \* whether the guest ELF was built with overflow checks
    prev,            \* the executor's record of an earlier run of the same ELF
    rel,             \* how this run's input was derived from the earlier run's
    hpc,             \* the publisher's position in main
    hErr,            \* the context of the error main returned, "none" if none
    program_url,     \* whether args.program_url is Some
    proposal_id,     \* main's proposal_id
    casted_votes,    \* the witness prepare_and_cast_votes builds and returns
    cast_count,      \* number of votes whose cast_vote has returned Ok
    tx,              \* the transaction last broadcast by the publisher
    txMined,         \* whether that transaction is on the chain
    chain,           \* the transactions on the chain, in order
    request          \* the proof request submitted to the market

hostVars == <<hpc, hErr, program_url, proposal_id, casted_votes, cast_count, tx, txMined,
              chain, request>>

\* --------------------------------------------------------------- the guest
\* Mutant of ProposalMatches: the consistency check is compiled out.
ProposalMatchesUnchecked(v, pid) == TRUE

\* assert_eq!(v.proposalId, proposalId) passes.
ProposalMatches(v, pid) == v.proposalId = pid

\* Mutant of ChainRoot: the seed is skipped and the digest goes on from
\* whatever the accumulator held.
ChainRootStale(pid) == digest

\* let mut digest = keccak256((proposalId).abi_encode());
ChainRoot(pid) == keccak256(AbiEncodeId(pid))

\* let mut yes: u32 = 0; let mut no: u32 = 0;
InitialCount == 0

\* Mutant of VoteCommitment: the choice is left out of the commitment.
VoteCommitmentNoChoice(v) == keccak256(<<v.voter, v.proposalId>>)

\* keccak256((v.voter, v.choice, v.proposalId).abi_encode())
VoteCommitment(v) == keccak256(AbiEncodeVoteTuple(v.voter, v.choice, v.proposalId))

\* Mutant of FoldDigest: each commitment is hashed with the chain root, not
\* with the running digest.
FoldDigestUnchained(d, c) == keccak256(AbiEncodePair(keccak256(AbiEncodeId(proposalId)), c))

\* Mutant of FoldDigest: the pair is encoded commitment first.
FoldDigestSwapped(d, c) == keccak256(AbiEncodePair(c, d))

\* digest = keccak256((digest, vote_commitment).abi_encode());
FoldDigest(d, c) == keccak256(AbiEncodePair(d, c))

\* `c += 1` on a u32 leaves the range of the type.
Overflows(c) == c + 1 > CountMax

\* The value `c += 1` stores: the sum, wrapped at the counter's width.
Incremented(c) == (c + 1) % CountModulus

\* The counter the current vote increments.
Counted(v) == IF v.choice THEN yes ELSE no

\* read_to_end(..).unwrap(); VoteWitness::abi_decode(..).unwrap() panics.
DecodeFail ==
    /\ pc = "start"
    /\ ~AbiDecodeWitness(stdin).ok
    /\ pc' = "panicked"
    /\ panicMsg' = "decode"
    /\ UNCHANGED <<stdin, proposalId, votes, i, yes, no, digest, journal,
                   overflowChecks, prev, rel, hostVars>>

\* The witness decodes; the accumulators are initialised.
Begin ==
    /\ pc = "start"
    /\ AbiDecodeWitness(stdin).ok
    /\ proposalId' = AbiDecodeWitness(stdin).proposalId
    /\ votes' = AbiDecodeWitness(stdin).votes
    /\ yes' = InitialCount
    /\ no' = InitialCount
    /\ digest' = ChainRoot(AbiDecodeWitness(stdin).proposalId)
    /\ i' = 0
    /\ pc' = "loop"
    /\ UNCHANGED <<stdin, panicMsg, journal, overflowChecks, prev, rel, hostVars>>

\* The next vote fails assert_eq!(v.proposalId, proposalId).
AssertFail ==
    /\ pc = "loop"
    /\ i < Len(votes)
    /\ ~ProposalMatches(votes[i + 1], proposalId)
    /\ pc' = "panicked"
    /\ panicMsg' = "mismatch"
    /\ UNCHANGED <<stdin, proposalId, votes, i, yes, no, digest, journal,
                   overflowChecks, prev, rel, hostVars>>

\* `yes += 1` / `no += 1` overflows in a build with overflow checks.
CountOverflow ==
    /\ pc = "loop"
    /\ i < Len(votes)
    /\ ProposalMatches(votes[i + 1], proposalId)
    /\ overflowChecks
    /\ Overflows(Counted(votes[i + 1]))
    /\ pc' = "panicked"
    /\ panicMsg' = "overflow"
    /\ UNCHANGED <<stdin, proposalId, votes, i, yes, no, digest, journal,
                   overflowChecks, prev, rel, hostVars>>

\* Mutant of Accumulate: the running output is committed in every iteration.
AccumulateCommitting ==
    /\ pc = "loop"
    /\ i < Len(votes)
    /\ ProposalMatches(votes[i + 1], proposalId)
    /\ ~(overflowChecks /\ Overflows(Counted(votes[i + 1])))
    /\ yes' = IF votes[i + 1].choice THEN Incremented(yes) ELSE yes
    /\ no' = IF votes[i + 1].choice THEN no ELSE Incremented(no)
    /\ digest' = FoldDigest(digest, VoteCommitment(votes[i + 1]))
    /\ i' = i + 1
    /\ journal' = journal \o AbiEncodeOutput(
           [proposalId |-> proposalId, commitmentsDigest |-> digest',
            yes |-> yes', no |-> no'])
    /\ UNCHANGED <<stdin, pc, panicMsg, proposalId, votes, overflowChecks, prev, rel, hostVars>>

\* One iteration of the loop that runs to its end: count, commit, fold.
Accumulate ==
    /\ pc = "loop"
    /\ i < Len(votes)
    /\ ProposalMatches(votes[i + 1], proposalId)
    /\ ~(overflowChecks /\ Overflows(Counted(votes[i + 1])))
    /\ yes' = IF votes[i + 1].choice THEN Incremented(yes) ELSE yes
    /\ no' = IF votes[i + 1].choice THEN no ELSE Incremented(no)
    /\ digest' = FoldDigest(digest, VoteCommitment(votes[i + 1]))
    /\ i' = i + 1
    /\ UNCHANGED <<stdin, pc, panicMsg, proposalId, votes, journal,
                   overflowChecks, prev, rel, hostVars>>

\* The public output built after the loop.
PublicOutput ==
    [proposalId |-> proposalId, commitmentsDigest |-> digest, yes |-> yes, no |-> no]

\* env::commit_slice(public_output.abi_encode().as_slice());
Commit ==
    /\ pc = "loop"
    /\ i = Len(votes)
    /\ journal' = journal \o AbiEncodeOutput(PublicOutput)
    /\ pc' = "done"
    /\ UNCHANGED <<stdin, panicMsg, proposalId, votes, i, yes, no, digest,
                   overflowChecks, prev, rel, hostVars>>

NoTx == [fn |-> "none", args |-> <<>>]

NoWitness == [proposalId |-> 0, votes |-> <<>>]

NoRequest == [submitted |-> FALSE, program |-> "none", stdin |-> <<>>]

\* The publisher is not part of the run.
HostOff ==
    /\ hpc = "off"
    /\ hErr = "none"
    /\ program_url = FALSE
    /\ proposal_id = 0
    /\ casted_votes = NoWitness
    /\ cast_count = 0
    /\ tx = NoTx
    /\ txMined = FALSE
    /\ chain = <<>>
    /\ request = NoRequest

NoRun == [ran |-> FALSE, stdin |-> <<>>, pc |-> "start", panicMsg |-> "none",
          journal |-> <<>>]

\* A fresh session of the executor on input bytes b: nothing read, nothing
\* committed; the locals hold whatever memory held until Begin assigns them.
Init ==
    /\ stdin \in Inputs
    /\ overflowChecks \in BOOLEAN
    /\ pc = "start"
    /\ panicMsg = "none"
    /\ proposalId = 0
    /\ votes = <<>>
    /\ i = 0
    /\ yes = 0
    /\ no = 0
    /\ digest = keccak256(<<>>)
    /\ journal = <<>>
    /\ prev = NoRun
    /\ rel = "none"
    /\ HostOff

vars == <<stdin, pc, panicMsg, proposalId, votes, i, yes, no, digest, journal,
          overflowChecks, prev, rel, hostVars>>

Next ==
    \/ DecodeFail
    \/ Begin
    \/ AssertFail
    \/ CountOverflow
    \/ Accumulate
    \/ Commit

Spec == Init /\ [][Next]_vars

\* ------------------------------------------------ the executor, run again
\* What the executor keeps of a finished session.
Finished == [ran |-> TRUE, stdin |-> stdin, pc |-> pc, panicMsg |-> panicMsg,
             journal |-> journal]

\* A second session of the same ELF on input b, derived from the first
\* session's input as r says.  The guest's memory is not part of the session:
\* the locals keep their values until Begin assigns them.
Execute(r, b) ==
    /\ prev' = Finished
    /\ rel' = r
    /\ stdin' = b
    /\ pc' = "start"
    /\ panicMsg' = "none"
    /\ journal' = <<>>
    /\ UNCHANGED <<proposalId, votes, i, yes, no, digest, overflowChecks, hostVars>>

\* The bijections of 1..n.
Bijections(n) ==
    {p \in [1..n -> 1..n] : \A a, b \in 1..n : a # b => p[a] # p[b]}

Identity(n) == [k \in 1..n |-> k]

\* vs with the vote at position k left out.
Omit(vs, k) == SubSeq(vs, 1, k - 1) \o SubSeq(vs, k + 1, Len(vs))

\* vs with v put in after position k.
Insert(vs, k, v) == SubSeq(vs, 1, k) \o <<v>> \o SubSeq(vs, k + 1, Len(vs))

\* The same input again.
RerunSame ==
    /\ ~prev.ran
    /\ pc \in {"done", "panicked"}
    /\ Execute("same", stdin)

\* The accepted witness with its votes in another order of positions.
RerunPermuted ==
    /\ ~prev.ran
    /\ pc = "done"
    /\ \E p \in Bijections(Len(votes)) \ {Identity(Len(votes))} :
          Execute("permuted",
                  AbiEncodeWitness([proposalId |-> proposalId,
                                    votes |-> [k \in 1..Len(votes) |-> votes[p[k]]]]))

\* The accepted witness with one vote's choice flipped.
RerunChoice ==
    /\ ~prev.ran
    /\ pc = "done"
    /\ \E k \in 1..Len(votes) :
          Execute("choice",
                  AbiEncodeWitness([proposalId |-> proposalId,
                                    votes |-> [votes EXCEPT ![k].choice = ~@]]))

\* The accepted witness with one vote's voter replaced.
RerunVoter ==
    /\ ~prev.ran
    /\ pc = "done"
    /\ \E k \in 1..Len(votes) : \E u \in Voters \ {votes[k].voter} :
          Execute("voter",
                  AbiEncodeWitness([proposalId |-> proposalId,
                                    votes |-> [votes EXCEPT ![k].voter = u]]))

\* The accepted witness moved to another proposal, in the witness and in
\* every vote.
RerunProposal ==
    /\ ~prev.ran
    /\ pc = "done"
    /\ \E q \in ProposalIds \ {proposalId} :
          Execute("proposal",
                  AbiEncodeWitness([proposalId |-> q,
                                    votes |-> [k \in 1..Len(votes) |->
                                                  [votes[k] EXCEPT !.proposalId = q]]]))

\* The accepted witness with one more vote for its proposal, at any position.
RerunInsert ==
    /\ ~prev.ran
    /\ pc = "done"
    /\ Len(votes) < MaxVotes
    /\ \E k \in 0..Len(votes) : \E u \in Voters : \E c \in BOOLEAN :
          Execute("insert",
                  AbiEncodeWitness([proposalId |-> proposalId,
                                    votes |-> Insert(votes, k,
                                        [proposalId |-> proposalId, voter |-> u,
                                         choice |-> c])]))

\* The accepted witness with one vote left out.
RerunOmit ==
    /\ ~prev.ran
    /\ pc = "done"
    /\ \E k \in 1..Len(votes) :
          Execute("omit",
                  AbiEncodeWitness([proposalId |-> proposalId,
                                    votes |-> Omit(votes, k)]))

NextPair ==
    \/ Next
    \/ RerunSame
    \/ RerunPermuted
    \/ RerunChoice
    \/ RerunVoter
    \/ RerunProposal
    \/ RerunInsert
    \/ RerunOmit

\* Two sessions of the executor, one after the other.
SpecPair == Init /\ [][NextPair]_vars

\* ------------------------------------------------------------ the publisher
guestVars == <<stdin, pc, panicMsg, proposalId, votes, i, yes, no, digest, journal,
               overflowChecks, prev, rel>>

\* main returns the error with context ctx.
Bail(ctx) ==
    /\ hpc' = "failed"
    /\ hErr' = ctx

\* The chain includes the transaction the publisher broadcast.
Mine ==
    /\ tx # NoTx
    /\ ~txMined
    /\ chain' = Append(chain, tx)
    /\ txMined' = TRUE
    /\ UNCHANGED <<hpc, hErr, program_url, proposal_id, casted_votes, cast_count,
                   tx, request>>
    /\ UNCHANGED guestVars

\* create_new_proposal: createProposal(..).call() yields the proposal id.
CreateCall ==
    /\ hpc = "create_call"
    /\ \/ \E id \in ProposalIds :
             /\ proposal_id' = id
             /\ hpc' = "create_send"
             /\ UNCHANGED hErr
       \/ /\ Bail("create_new_proposal: failed to retrieve proposal ID")
          /\ UNCHANGED proposal_id
    /\ UNCHANGED <<program_url, casted_votes, cast_count, tx, txMined, chain, request>>
    /\ UNCHANGED guestVars

\* create_new_proposal: send() broadcasts the createProposal transaction.
CreateSend ==
    /\ hpc = "create_send"
    /\ \/ /\ tx' = [fn |-> "createProposal", args |-> <<"deadline_timestamp">>]
          /\ txMined' = FALSE
          /\ hpc' = "create_watch"
          /\ UNCHANGED hErr
       \/ /\ Bail("create_new_proposal: failed to broadcast tx")
          /\ UNCHANGED <<tx, txMined>>
    /\ UNCHANGED <<program_url, proposal_id, casted_votes, cast_count, chain, request>>
    /\ UNCHANGED guestVars

\* create_new_proposal: watch() returns once the transaction is confirmed,
\* or fails (TX_TIMEOUT).
CreateWatch ==
    /\ hpc = "create_watch"
    /\ \/ /\ txMined
          /\ hpc' = "prepare"
          /\ UNCHANGED hErr
       \/ Bail("create_new_proposal: failed to confirm tx")
    /\ UNCHANGED <<program_url, proposal_id, casted_votes, cast_count, tx, txMined,
                   chain, request>>
    /\ UNCHANGED guestVars

\* The votes prepare_and_cast_votes builds for the proposal.
DummyVotes(id) ==
    [proposalId |-> id,
     votes |-> << [proposalId |-> id, voter |-> 1, choice |-> TRUE],
                  [proposalId |-> id, voter |-> 2, choice |-> FALSE],
                  [proposalId |-> id, voter |-> 3, choice |-> TRUE] >>]

\* prepare_and_cast_votes: the witness is built.
PrepareVotes ==
    /\ hpc = "prepare"
    /\ casted_votes' = DummyVotes(proposal_id)
    /\ cast_count' = 0
    /\ hpc' = "cast_send"
    /\ UNCHANGED <<hErr, program_url, proposal_id, tx, txMined, chain, request>>
    /\ UNCHANGED guestVars

\* Mutant of CastCommitment: the fields are encoded in the struct's order.
CastCommitmentStructOrder(vote) ==
    keccak256(<<vote.proposalId, vote.voter, BoolWord(vote.choice)>>)

\* cast_vote: keccak256((vote.voter, vote.choice, vote.proposalId).abi_encode())
CastCommitment(vote) ==
    keccak256(AbiEncodeVoteTuple(vote.voter, vote.choice, vote.proposalId))

\* cast_vote: send() broadcasts castVote(proposalId, commitment) for the next
\* vote of the witness.
CastSend ==
    /\ hpc = "cast_send"
    /\ cast_count < Len(casted_votes.votes)
    /\ \/ /\ tx' = [fn |-> "castVote",
                    args |-> <<casted_votes.votes[cast_count + 1].proposalId,
                               CastCommitment(casted_votes.votes[cast_count + 1])>>]
          /\ txMined' = FALSE
          /\ hpc' = "cast_watch"
          /\ UNCHANGED hErr
       \/ /\ Bail("cast_vote: failed to broadcast tx")
          /\ UNCHANGED <<tx, txMined>>
    /\ UNCHANGED <<program_url, proposal_id, casted_votes, cast_count, chain, request>>
    /\ UNCHANGED guestVars

\* cast_vote: watch() returns once the transaction is confirmed, or fails
\* (TX_TIMEOUT); on Ok the loop goes on to the next vote.
CastWatch ==
    /\ hpc = "cast_watch"
    /\ \/ /\ txMined
          /\ cast_count' = cast_count + 1
          /\ hpc' = "cast_send"
          /\ UNCHANGED hErr
       \/ /\ Bail("cast_vote: failed to confirm tx")
          /\ UNCHANGED cast_count
    /\ UNCHANGED <<program_url, proposal_id, casted_votes, tx, txMined, chain, request>>
    /\ UNCHANGED guestVars

\* prepare_and_cast_votes returns Ok(votes); main encodes the witness as the
\* request's stdin and builds the request.
BuildRequest ==
    /\ hpc = "cast_send"
    /\ cast_count = Len(casted_votes.votes)
    /\ \/ /\ request' = [submitted |-> FALSE,
                         program |-> IF program_url THEN "url" ELSE "elf",
                         stdin |-> AbiEncodeWitness(casted_votes)]
          /\ hpc' = "submit"
          /\ UNCHANGED hErr
       \/ /\ Bail("failed to build proof request")
          /\ UNCHANGED request
    /\ UNCHANGED <<program_url, proposal_id, casted_votes, cast_count, tx, txMined, chain>>
    /\ UNCHANGED guestVars

\* client.submit_request_onchain_with_signature(..)
SubmitRequest ==
    /\ hpc = "submit"
    /\ \/ /\ request' = [request EXCEPT !.submitted = TRUE]
          /\ hpc' = "wait"
          /\ UNCHANGED hErr
       \/ /\ Bail("submit_request_onchain_with_signature")
          /\ UNCHANGED request
    /\ UNCHANGED <<program_url, proposal_id, casted_votes, cast_count, tx, txMined, chain>>
    /\ UNCHANGED guestVars

\* request_boundless_proof: the fulfillment arrives, or waiting fails.
AwaitFulfillment ==
    /\ hpc = "wait"
    /\ \/ /\ hpc' = "check"
          /\ UNCHANGED hErr
       \/ Bail("failed to get proof fulfilment from Boundless Market")
    /\ UNCHANGED <<program_url, proposal_id, casted_votes, cast_count, tx, txMined,
                   chain, request>>
    /\ UNCHANGED guestVars

\* get_proposal_meta_data and the check of proposal_meta_data.tallied.
CheckTallied ==
    /\ hpc = "check"
    /\ \/ /\ hpc' = "ok"
          /\ UNCHANGED hErr
       \/ Bail("proposal tally was not completed onchain")
       \/ Bail("failed to get proposal tally state from contract")
    /\ UNCHANGED <<program_url, proposal_id, casted_votes, cast_count, tx, txMined,
                   chain, request>>
    /\ UNCHANGED guestVars

NextPub ==
    \/ Mine
    \/ CreateCall
    \/ CreateSend
    \/ CreateWatch
    \/ PrepareVotes
    \/ CastSend
    \/ CastWatch
    \/ BuildRequest
    \/ SubmitRequest
    \/ AwaitFulfillment
    \/ CheckTallied

\* A run of the publisher: the guest is not run by the publisher itself.
InitPub ==
    /\ stdin = <<>>
    /\ overflowChecks = FALSE
    /\ pc = "idle"
    /\ panicMsg = "none"
    /\ proposalId = 0
    /\ votes = <<>>
    /\ i = 0
    /\ yes = 0
    /\ no = 0
    /\ digest = keccak256(<<>>)
    /\ journal = <<>>
    /\ prev = NoRun
    /\ rel = "none"
    /\ hpc = "create_call"
    /\ hErr = "none"
    /\ program_url \in BOOLEAN
    /\ proposal_id = 0
    /\ casted_votes = NoWitness
    /\ cast_count = 0
    /\ tx = NoTx
    /\ txMined = FALSE
    /\ chain = <<>>
    /\ request = NoRequest

SpecPub == InitPub /\ [][NextPub]_vars

\* ------------------------------------------------- the single run's claims
\* The witness the input bytes encode.
Witness == AbiDecodeWitness(stdin)

\* The output the journal holds.
Output == AbiDecodeOutput(journal)

\* Positions of w whose vote names another proposal than w does.
Mismatches(w) == {k \in 1..Len(w.votes) : w.votes[k].proposalId # w.proposalId}

\* Number of votes of vs with choice c.
CountChoice(vs, c) == Cardinality({k \in 1..Len(vs) : vs[k].choice = c})

\* The chain of the specification: d_0 = Hash(Encode(proposal_id)),
\* d_n = Hash(Encode(d_{n-1}, Hash(Encode(voter_n, choice_n, proposal_id_n)))).
RECURSIVE ChainDigest(_, _, _)
ChainDigest(pid, vs, n) ==
    IF n = 0 THEN keccak256(<<pid>>)
    ELSE keccak256(<<ChainDigest(pid, vs, n - 1),
                     keccak256(<<vs[n].voter, BoolWord(vs[n].choice), vs[n].proposalId>>)>>)

\* C1: a witness with a vote at any position k whose proposal_id differs from
\* the witness's never completes: the run is never done, commits nothing, the
\* loop never gets past a mismatching vote, and once the run can take no more
\* steps it has panicked.
C1_MismatchRejected ==
    (Witness.ok /\ Mismatches(Witness) # {}) =>
        /\ pc # "done"
        /\ journal = <<>>
        /\ (pc = "loop" => \A k \in Mismatches(Witness) : i < k)
        /\ (~ENABLED Next => pc = "panicked")

\* C1's case: the run panicked on a mismatching vote that is the last of at
\* least three votes.
C1_Witness ==
    /\ pc = "panicked"
    /\ panicMsg = "mismatch"
    /\ i >= 2
    /\ i = Len(votes) - 1

\* C2: when every vote carries the witness's proposal_id, the emitted output
\* has the witness's proposal_id, yes = number of votes with choice true and
\* no = number of votes with choice false.
C2_OutputCounts ==
    (pc = "done" /\ Mismatches(Witness) = {}) =>
        /\ Output.proposalId = Witness.proposalId
        /\ Output.yes = CountChoice(Witness.votes, TRUE)
        /\ Output.no = CountChoice(Witness.votes, FALSE)

\* C3: the emitted commitments_digest is the left-to-right chain over the
\* witness's votes (the chain root for an empty list), and inside the loop
\* the running digest is the chain over the votes consumed so far.
C3_DigestChain ==
    /\ pc = "done" =>
          Output.commitmentsDigest =
              ChainDigest(Witness.proposalId, Witness.votes, Len(Witness.votes))
    /\ pc = "loop" => digest = ChainDigest(Witness.proposalId, Witness.votes, i)

\* C3's case: an output was emitted for a witness of at least two votes.
C3_Witness ==
    /\ pc = "done"
    /\ Len(Witness.votes) >= 2
    /\ Len(journal) = 4

\* C4: whenever an output is emitted, yes + no is the number of votes, and
\* after k votes have been processed yes + no = k.
C4_CountConservation ==
    /\ pc = "done" => Output.yes + Output.no = Len(Witness.votes)
    /\ pc = "loop" => yes + no = i

\* C5: a run in which a counter would leave its fixed width fails: no output
\* is emitted for a witness with more than CountMax votes of one choice.
C5_OverflowFails ==
    pc = "done" =>
        /\ CountChoice(Witness.votes, TRUE) <= CountMax
        /\ CountChoice(Witness.votes, FALSE) <= CountMax

\* C6: the journal is written at most once, only by a run that is done and
\* has checked and accumulated every vote of the witness; a run that panicked
\* has an empty journal.
C6_NoPartialOutput ==
    /\ Len(journal) \in {0, 4}
    /\ journal # <<>> =>
          /\ pc = "done"
          /\ i = Len(Witness.votes)
          /\ Mismatches(Witness) = {}
    /\ pc = "panicked" => journal = <<>>

\* C6's case: the run failed after votes were counted and folded into the
\* local digest.
C6_Witness ==
    /\ pc = "panicked"
    /\ panicMsg \in {"mismatch", "overflow"}
    /\ yes + no >= 1
    /\ digest # ChainRoot(proposalId)
    /\ journal = <<>>

\* ---------------------------------------------------- the two runs' claims
\* The witness and the output of the earlier session.
PrevWitness == AbiDecodeWitness(prev.stdin)

PrevOutput == AbiDecodeOutput(prev.journal)

\* Both sessions emitted an output.
BothDone == prev.ran /\ prev.pc = "done" /\ pc = "done"

\* vs holds two votes that differ in choice.
DiffersInChoice(vs) == \E a, b \in 1..Len(vs) : vs[a].choice # vs[b].choice

\* C7 as stated: for an accepted witness with at least two votes that differ
\* in choice, every non-identity permutation of the positions changes
\* commitments_digest and leaves yes and no unchanged.
C7_AnyPermutationChangesDigest ==
    (rel = "permuted" /\ BothDone /\ DiffersInChoice(PrevWitness.votes)) =>
        /\ Output.commitmentsDigest # PrevOutput.commitmentsDigest
        /\ Output.yes = PrevOutput.yes
        /\ Output.no = PrevOutput.no

\* C7 as amended: for an accepted witness with at least two votes that differ
\* in choice, every permutation that yields a different vote list changes
\* commitments_digest, and every permutation leaves yes and no unchanged.
C7_OrderSensitivity ==
    (rel = "permuted" /\ BothDone /\ DiffersInChoice(PrevWitness.votes)) =>
        /\ Witness.votes # PrevWitness.votes =>
              Output.commitmentsDigest # PrevOutput.commitmentsDigest
        /\ Output.yes = PrevOutput.yes
        /\ Output.no = PrevOutput.no

\* C7's case: both the witness and a reordering of its three or more votes,
\* not all of one choice, were tallied.
C7_Witness ==
    /\ rel = "permuted"
    /\ BothDone
    /\ Len(Witness.votes) >= 3
    /\ DiffersInChoice(PrevWitness.votes)
    /\ Witness.votes # PrevWitness.votes

\* C8: changing one vote's choice or voter, moving the witness and its votes
\* to another proposal_id, inserting a vote or omitting one yields another
\* commitments_digest than the original witness.
C8_TamperDetection ==
    (rel \in {"choice", "voter", "proposal", "insert", "omit"} /\ BothDone) =>
        Output.commitmentsDigest # PrevOutput.commitmentsDigest

\* C8's case: a witness of two or more votes and the same witness with one
\* vote's choice flipped were both tallied.
C8_Witness ==
    /\ rel = "choice"
    /\ BothDone
    /\ Len(Witness.votes) >= 2

IsCast(t) == t.fn = "castVote"

\* The castVote transactions on the chain, in the order the chain holds them.
CastTxs == SelectSeq(chain, IsCast)

\* The digest a verifier folds from the first n commitments on the ledger.
RECURSIVE LedgerDigest(_, _)
LedgerDigest(pid, n) ==
    IF n = 0 THEN keccak256(<<pid>>)
    ELSE keccak256(<<LedgerDigest(pid, n - 1), CastTxs[n].args[2]>>)

CastErrors == {"cast_vote: failed to broadcast tx", "cast_vote: failed to confirm tx"}

\* C10: the chain holds at most one castVote per vote of the witness, in
\* witness order, each with the commitment the tally engine folds for that
\* vote; a cast is only sent when every earlier one is confirmed; a request
\* exists only once all casts are confirmed, carries the witness, and its
\* digest is the one the ledger's order gives; after a failed cast the run
\* has aborted with no request.
C10_OrchestrationOrder ==
    /\ Len(CastTxs) <= Len(casted_votes.votes)
    /\ \A j \in 1..Len(CastTxs) :
          CastTxs[j].args =
              <<casted_votes.proposalId, VoteCommitment(casted_votes.votes[j])>>
    /\ cast_count <= Len(CastTxs)
    /\ Len(CastTxs) <= cast_count + 1
    /\ hpc = "cast_send" => (txMined /\ Len(CastTxs) = cast_count)
    /\ request # NoRequest =>
          /\ cast_count = Len(casted_votes.votes)
          /\ Len(CastTxs) = Len(casted_votes.votes)
          /\ AbiDecodeWitness(request.stdin).ok
          /\ AbiDecodeWitness(request.stdin).proposalId = casted_votes.proposalId
          /\ AbiDecodeWitness(request.stdin).votes = casted_votes.votes
          /\ LedgerDigest(casted_votes.proposalId, Len(CastTxs)) =
                ChainDigest(AbiDecodeWitness(request.stdin).proposalId,
                            AbiDecodeWitness(request.stdin).votes,
                            Len(AbiDecodeWitness(request.stdin).votes))
    /\ (hpc = "failed" /\ hErr \in CastErrors) =>
          /\ request = NoRequest
          /\ cast_count < Len(casted_votes.votes)

\* C10's case: the request was submitted after three casts were confirmed.
C10_Witness ==
    /\ request.submitted
    /\ Len(CastTxs) = 3
    /\ cast_count = 3

====
